---- MODULE Spec2Model ----
(***************************************************************************)
(* Indicator engine of the stock-analysis tool: src/data_download.py (the  *)
(* transforms over a price DataFrame) and the pipeline of src/main.py.     *)
(*                                                                         *)
(* Numbers.  A float is modelled as an exact extended rational <<n, d>>    *)
(* in lowest terms with d >= 0:  d > 0 is the number n/d, <<0,0>> is NaN,  *)
(* <<1,0>> is +inf and <<-1,0>> is -inf.  The IEEE rules the code relies   *)
(* on (x/0, 0/0, inf-inf, NaN comparisons) are kept; rounding error and    *)
(* the sign of zero are not represented.  A square root (std, volatility)  *)
(* is kept symbolically as [sgn, sq], the number sgn * sqrt(sq).           *)
(***************************************************************************)
EXTENDS Integers, Sequences, FiniteSets, TLC

(* ------------------------------ bounds -------------------------------- *)
\* longest Close column explored
MaxLen == 4
\* Close prices explored are 0..MaxPrice
MaxPrice == 4
\* longest column on which the default-span MACD (12, 26, 9) is computed:
\* its exact denominators are 1755^(length-1)
MaxEwmLen == 2

(* ------------------------- extended rationals ------------------------- *)
NaN == <<0, 0>>
PosInf == <<1, 0>>
NegInf == <<-1, 0>>
\* the cell of an object column that holds Python's None
NoneCell == <<0, -1>>

Abs(n) == IF n < 0 THEN -n ELSE n
Sgn(n) == IF n < 0 THEN -1 ELSE IF n > 0 THEN 1 ELSE 0

RECURSIVE GCD(_, _)
GCD(a, b) == IF b = 0 THEN a ELSE GCD(b, a % b)

\* n/d for d # 0, in lowest terms with a positive denominator
Q(n, d) ==
  LET g == GCD(Abs(n), Abs(d))
      s == IF d < 0 THEN -1 ELSE 1
  IN  <<s * (n \div g), s * (d \div g)>>

F(n) == <<n, 1>>

IsNaN(x) == x = NaN
IsInf(x) == x = PosInf \/ x = NegInf
IsFinite(x) == x[2] > 0
NotNa(x) == x # NaN /\ x # NoneCell

Neg(x) == <<-x[1], x[2]>>

Add(x, y) ==
  IF IsNaN(x) \/ IsNaN(y) THEN NaN
  ELSE IF IsInf(x) /\ IsInf(y) THEN (IF x = y THEN x ELSE NaN)
  ELSE IF IsInf(x) THEN x
  ELSE IF IsInf(y) THEN y
  ELSE LET g == GCD(x[2], y[2])
           l == (x[2] \div g) * y[2]
       IN  Q(x[1] * (l \div x[2]) + y[1] * (l \div y[2]), l)

Sub(x, y) == Add(x, Neg(y))

Mul(x, y) ==
  IF IsNaN(x) \/ IsNaN(y) THEN NaN
  ELSE IF IsInf(x) \/ IsInf(y)
       THEN (IF x[1] = 0 \/ y[1] = 0 THEN NaN
             ELSE IF Sgn(x[1]) = Sgn(y[1]) THEN PosInf ELSE NegInf)
  ELSE LET g1 == GCD(Abs(x[1]), y[2])
           g2 == GCD(Abs(y[1]), x[2])
       IN  Q((x[1] \div g1) * (y[1] \div g2), (x[2] \div g2) * (y[2] \div g1))

\* float division as numpy and pandas do it: no exception, x/0 is +-inf, 0/0 NaN
Div(x, y) ==
  IF IsNaN(x) \/ IsNaN(y) THEN NaN
  ELSE IF IsInf(y) THEN (IF IsInf(x) THEN NaN ELSE F(0))
  ELSE IF y[1] = 0
       THEN (IF x[1] = 0 THEN NaN ELSE IF x[1] > 0 THEN PosInf ELSE NegInf)
  ELSE IF IsInf(x) THEN (IF Sgn(x[1]) = Sgn(y[1]) THEN PosInf ELSE NegInf)
  ELSE Mul(x, Q(y[2], y[1]))

\* x < y on floats: false when either side is NaN
Lt(x, y) ==
  IF IsNaN(x) \/ IsNaN(y) THEN FALSE
  ELSE IF x = y THEN FALSE
  ELSE IF x = NegInf \/ y = PosInf THEN TRUE
  ELSE IF x = PosInf \/ y = NegInf THEN FALSE
  ELSE x[1] * y[2] < y[1] * x[2]

Gt(x, y) == Lt(y, x)
Le(x, y) == Lt(x, y) \/ (x = y /\ ~IsNaN(x))

\* round(x, 2) of a numpy float: x * 100 to the nearest integer, ties to even
Round2(x) ==
  IF ~IsFinite(x) THEN x
  ELSE LET y == Mul(x, F(100))
           fl == y[1] \div y[2]
           r2 == 2 * (y[1] - fl * y[2])
           k == IF r2 < y[2] THEN fl
                ELSE IF r2 > y[2] THEN fl + 1
                ELSE IF fl % 2 = 0 THEN fl ELSE fl + 1
       IN  Q(k, 100)

\* sgn * sqrt(sq), kept symbolically
Surd(sgn, sq) == [sgn |-> sgn, sq |-> sq]
\* numpy sqrt of a variance (never negative)
Sqrt(x) == IF IsNaN(x) THEN Surd(0, NaN) ELSE Surd(Sgn(x[1]), x)
\* a root divided by a float
SurdDiv(s, y) ==
  LET q == Div(s.sq, Mul(y, y))
  IN  IF IsNaN(s.sq) \/ IsNaN(y) THEN Surd(0, NaN)
      ELSE IF y[1] = 0 /\ IsFinite(y)
           THEN (IF s.sgn = 0 THEN Surd(0, NaN) ELSE Surd(s.sgn, PosInf))
      ELSE IF IsNaN(q) THEN Surd(0, NaN)
      ELSE Surd(s.sgn * Sgn(y[1]) * Sgn(q[1]), q)
\* a root times a positive float
SurdMul(s, y) ==
  LET q == Mul(s.sq, Mul(y, y))
  IN  IF IsNaN(q) THEN Surd(0, NaN) ELSE Surd(s.sgn * Sgn(q[1]), q)
\* a root times np.sqrt(n)
SurdMulSqrt(s, n) ==
  IF IsNaN(s.sq) THEN Surd(0, NaN) ELSE Surd(s.sgn, Mul(s.sq, F(n)))
SurdIsNaN(s) == IsNaN(s.sq)
SurdIsInf(s) == IsInf(s.sq)

(* --------------------------- Python objects --------------------------- *)
None == [t |-> "None"]
\* a DataFrame: cols maps each column name to its column, all of one length
DataFrame(cols) == [t |-> "DataFrame", cols |-> cols]
Series(v) == [t |-> "Series", v |-> v]
Dict(d) == [t |-> "dict", d |-> d]
Float(x) == [t |-> "float", x |-> x]
Str(x) == [t |-> "str", x |-> x]
IsNone(x) == x.t = "None"
Integer(n) == [t |-> "int", n |-> n]
\* a text is the sequence of its pieces, an extension being a piece of its own
\* bool(x) of a text or None: only a non-empty text is true
Truthy(x) == x.t = "str" /\ x.x # <<>>
\* how an f-string renders a text or None
Format(x) == IF IsNone(x) THEN <<"None">> ELSE x.x
\* s.lower(), on the answers and extensions explored; "da" and "net" stand
\* for the Cyrillic answers of the prompts
Lower(s) ==
  CASE s = "DA" -> "da"
    [] s = "YES" -> "yes"
    [] s = "Y" -> "y"
    [] s = ".CSV" -> ".csv"
    [] OTHER -> s

HasColumn(data, c) == data.t = "DataFrame" /\ c \in DOMAIN data.cols
\* len(data.index)
NRows(data) == Len(data.cols[CHOOSE c \in DOMAIN data.cols : TRUE])
\* data[c] = column (assignment of a column, replacing one of the same name)
SetColumn(data, c, column) == DataFrame((c :> column) @@ data.cols)

(* --------------------------- pandas / numpy --------------------------- *)
RECURSIVE SumSeq(_, _)
\* sum of the entries of s at the indices in I
SumSeq(s, I) ==
  IF I = {} THEN F(0)
  ELSE LET i == CHOOSE j \in I : TRUE IN Add(s[i], SumSeq(s, I \ {i}))

\* the indices of s that a reduction with skipna=True reads
Valid(s) == {i \in 1..Len(s) : NotNa(s[i])}

\* Series.mean(): NaN entries skipped, NaN when none is left
mean(s) ==
  IF Valid(s) = {} THEN NaN ELSE Div(SumSeq(s, Valid(s)), F(Cardinality(Valid(s))))

\* Series.min(), Series.max(): NaN entries skipped, NaN when none is left
min(s) ==
  IF Valid(s) = {} THEN NaN
  ELSE s[CHOOSE i \in Valid(s) : \A j \in Valid(s) : Le(s[i], s[j])]
max(s) ==
  IF Valid(s) = {} THEN NaN
  ELSE s[CHOOSE i \in Valid(s) : \A j \in Valid(s) : Le(s[j], s[i])]

\* Series.var(ddof): squared deviations from the mean over (count - ddof),
\* NaN when count <= ddof
var(s, ddof) ==
  LET n == Cardinality(Valid(s))
      m == mean(s)
      sq == [i \in 1..Len(s) |->
               IF i \in Valid(s) THEN Mul(Sub(s[i], m), Sub(s[i], m)) ELSE NaN]
  IN  IF n <= ddof THEN NaN ELSE Div(SumSeq(sq, Valid(s)), F(n - ddof))

\* Series.std(ddof) = sqrt(var)
std(s, ddof) == Sqrt(var(s, ddof))

\* mutant: a first difference of 0 instead of NaN
diff_zero_first(s) == [i \in 1..Len(s) |-> IF i = 1 THEN F(0) ELSE Sub(s[i], s[i - 1])]

\* Series.diff(): s[i] - s[i-1], NaN at the first index
diff(s) == [i \in 1..Len(s) |-> IF i = 1 THEN NaN ELSE Sub(s[i], s[i - 1])]

\* Series.clip(lower=0) and Series.clip(upper=0): NaN stays NaN
clip_lower(s) == [i \in 1..Len(s) |-> IF Lt(s[i], F(0)) THEN F(0) ELSE s[i]]
clip_upper(s) == [i \in 1..Len(s) |-> IF Gt(s[i], F(0)) THEN F(0) ELSE s[i]]

\* mutant: a first return of 0 instead of NaN
pct_change_zero_first(s) ==
  [i \in 1..Len(s) |-> IF i = 1 THEN F(0) ELSE Sub(Div(s[i], s[i - 1]), F(1))]

\* Series.pct_change(): s[i] / s[i-1] - 1, NaN at the first index
pct_change(s) ==
  [i \in 1..Len(s) |-> IF i = 1 THEN NaN ELSE Sub(Div(s[i], s[i - 1]), F(1))]

\* rolling(window=w) accepts an integer w >= 0 and raises ValueError otherwise
rolling_ok(w) == w >= 0

\* mutant: min_periods = 1, the leading entries average what is there
rolling_mean_min_periods_1(s, w) ==
  [i \in 1..Len(s) |->
     LET win == {j \in 1..i : j > i - w}
         obs == {j \in win : IsFinite(s[j])}
     IN  IF obs # {}
         THEN Div(SumSeq(s, obs), F(Cardinality(obs)))
         ELSE NaN]

\* rolling(window=w).mean() for w >= 0, min_periods = w: the mean of the
\* last w entries where all w are there and are numbers, NaN elsewhere
\* (rolling reads an infinite entry as NaN)
rolling_mean(s, w) ==
  [i \in 1..Len(s) |->
     LET win == {j \in 1..i : j > i - w}
         obs == {j \in win : IsFinite(s[j])}
     IN  IF Cardinality(obs) >= w /\ obs # {}
         THEN Div(SumSeq(s, obs), F(Cardinality(obs)))
         ELSE NaN]

\* ewm(span=span) accepts span >= 1 and raises ValueError otherwise
ewm_ok(span) == span >= 1

RECURSIVE ewm_at_zero_seed(_, _, _)
\* mutant: the average is seeded with 0 instead of the first value
ewm_at_zero_seed(s, span, t) ==
  LET alpha == Q(2, span + 1)
  IN  IF t = 1 THEN Mul(alpha, s[1])
      ELSE Add(Mul(alpha, s[t]),
               Mul(Sub(F(1), alpha), ewm_at_zero_seed(s, span, t - 1)))

RECURSIVE ewm_at(_, _, _)
\* ewm(span, adjust=False).mean() at index t: y[1] = s[1],
\* y[t] = alpha * s[t] + (1 - alpha) * y[t-1]  with alpha = 2 / (span + 1)
ewm_at(s, span, t) ==
  LET alpha == Q(2, span + 1)
  IN  IF t = 1 THEN s[1]
      ELSE Add(Mul(alpha, s[t]), Mul(Sub(F(1), alpha), ewm_at(s, span, t - 1)))

ewm_mean(s, span) == [t \in 1..Len(s) |-> ewm_at(s, span, t)]

\* elementwise Series arithmetic on a shared index
SeriesSub(a, b) == [i \in 1..Len(a) |-> Sub(a[i], b[i])]
SeriesDiv(a, b) == [i \in 1..Len(a) |-> Div(a[i], b[i])]
SeriesNeg(a) == [i \in 1..Len(a) |-> Neg(a[i])]

(* ------------------- src/data_download.py functions ------------------- *)
\* trading days per year, the factor under the root of the annualized volatility
TradingDays == 252
\* default arguments
DefaultWindow == 5
DefaultPeriods == 14
DefaultFast == 12
DefaultSlow == 26
DefaultSignal == 9
DefaultThreshold == 5
MainThreshold == 3

\* add_moving_average(data, window_size): [ret |-> the value returned,
\* arg |-> the caller's object data after the call]
add_moving_average(data, window_size) ==
  IF IsNone(data) THEN [ret |-> None, arg |-> data]
  ELSE IF HasColumn(data, "Close") /\ rolling_ok(window_size)
       THEN LET new == SetColumn(data, "Moving_Average",
                                 rolling_mean(data.cols["Close"], window_size))
            IN  [ret |-> new, arg |-> new]
       \* KeyError or ValueError, caught: the frame is returned as it is
       ELSE [ret |-> data, arg |-> data]

\* calculate_average_price(data)
calculate_average_price(data) ==
  IF IsNone(data) THEN None
  ELSE IF HasColumn(data, "Close") THEN Float(mean(data.cols["Close"]))
       ELSE None

\* mutant: the alert is raised at the threshold too (>= for >)
notify_at_threshold(data, ticker, threshold) ==
  IF IsNone(data) THEN None
  ELSE IF ~HasColumn(data, "Close") THEN None
  ELSE LET close_prices == data.cols["Close"]
           min_price == min(close_prices)
           max_price == max(close_prices)
           price_range_percent ==
             Mul(Div(Sub(max_price, min_price), min_price), F(100))
       IN  IF Le(threshold, price_range_percent)
           THEN Dict([ticker |-> ticker,
                      min_price |-> min_price,
                      max_price |-> max_price,
                      fluctuation_percent |-> Round2(price_range_percent)])
           ELSE None

\* notify_if_strong_fluctuations(data, ticker, threshold)
notify_if_strong_fluctuations(data, ticker, threshold) ==
  IF IsNone(data) THEN None
  ELSE IF ~HasColumn(data, "Close") THEN None
  ELSE LET close_prices == data.cols["Close"]
           min_price == min(close_prices)
           max_price == max(close_prices)
           price_range_percent ==
             Mul(Div(Sub(max_price, min_price), min_price), F(100))
       IN  IF Gt(price_range_percent, threshold)
           THEN Dict([ticker |-> ticker,
                      min_price |-> min_price,
                      max_price |-> max_price,
                      fluctuation_percent |-> Round2(price_range_percent)])
           ELSE None

\* mutant: RSI = 100 - 100 / RS, the 1 + dropped
rsi_series_no_plus_one(close, periods) ==
  LET delta == diff(close)
      gain == clip_lower(delta)
      loss == SeriesNeg(clip_upper(delta))
      avg_gain == rolling_mean(gain, periods)
      avg_loss == rolling_mean(loss, periods)
      relative_strength == SeriesDiv(avg_gain, avg_loss)
  IN  [i \in 1..Len(close) |-> Sub(F(100), Div(F(100), relative_strength[i]))]

\* the Series computed by the body of calculate_rsi (a loss of zero is -0.0
\* in the code: avg_gain / -0.0 is -inf there, and 100 - 100 / (1 + -inf) is
\* the same 100 that +inf gives)
rsi_series(close, periods) ==
  LET delta == diff(close)
      gain == clip_lower(delta)
      loss == SeriesNeg(clip_upper(delta))
      avg_gain == rolling_mean(gain, periods)
      avg_loss == rolling_mean(loss, periods)
      relative_strength == SeriesDiv(avg_gain, avg_loss)
  IN  [i \in 1..Len(close) |->
         Sub(F(100), Div(F(100), Add(F(1), relative_strength[i])))]

\* calculate_rsi(data, periods)
calculate_rsi(data, periods) ==
  IF IsNone(data) \/ ~HasColumn(data, "Close") THEN None
  ELSE IF rolling_ok(periods) THEN Series(rsi_series(data.cols["Close"], periods))
       ELSE None

\* the three columns computed by the body of calculate_macd
macd_columns(close, fast_period, slow_period, signal_period) ==
  LET exp1 == ewm_mean(close, fast_period)
      exp2 == ewm_mean(close, slow_period)
      macd == SeriesSub(exp1, exp2)
      signal_line == ewm_mean(macd, signal_period)
      histogram == SeriesSub(macd, signal_line)
  IN  [MACD |-> macd, Signal_Line |-> signal_line, Histogram |-> histogram]

\* calculate_macd(data, fast_period, slow_period, signal_period)
calculate_macd(data, fast_period, slow_period, signal_period) ==
  IF IsNone(data) \/ ~HasColumn(data, "Close") THEN None
  ELSE IF ewm_ok(fast_period) /\ ewm_ok(slow_period) /\ ewm_ok(signal_period)
       THEN DataFrame(macd_columns(data.cols["Close"],
                                   fast_period, slow_period, signal_period))
       ELSE None

\* pd.concat([a, b], axis=1) of two frames on the same index
concat(a, b) == DataFrame(b.cols @@ a.cols)

\* add_technical_indicators(data, add_rsi, add_macd); raised: an exception
\* is raised inside the try block (copy, column assignment or concat)
add_technical_indicators(data, add_rsi, add_macd, raised) ==
  IF IsNone(data) THEN None
  ELSE IF raised THEN None
  ELSE LET rsi == calculate_rsi(data, DefaultPeriods)
           with_rsi ==
             IF add_rsi
             THEN SetColumn(data, "RSI",
                    IF IsNone(rsi) THEN [i \in 1..NRows(data) |-> NoneCell]
                    ELSE rsi.v)
             ELSE data
           macd_indicators ==
             calculate_macd(data, DefaultFast, DefaultSlow, DefaultSignal)
       IN  IF add_macd /\ ~IsNone(macd_indicators)
           THEN concat(with_rsi, macd_indicators)
           ELSE with_rsi

\* calculate_standard_deviation(data, column)
calculate_standard_deviation(data, column) ==
  \* None[column] raises TypeError, a missing column KeyError: both are caught
  IF ~HasColumn(data, column) THEN None
  ELSE LET s == data.cols[column]
       IN  Dict([std_deviation |-> std(s, 1),
                 variance |-> var(s, 1),
                 min_price |-> min(s),
                 max_price |-> max(s),
                 price_range |-> Sub(max(s), min(s)),
                 coefficient_variation |->
                   SurdMul(SurdDiv(std(s, 1), mean(s)), F(100))])

\* advanced_price_analysis(data)
advanced_price_analysis(data) ==
  IF ~HasColumn(data, "Close") THEN None
  \* iloc[0] of an empty column raises IndexError, caught
  ELSE IF NRows(data) = 0 THEN None
  ELSE LET close == data.cols["Close"]
           daily_returns == pct_change(close)
           first == close[1]
           last == close[Len(close)]
       IN  Dict([mean_daily_return |-> mean(daily_returns),
                 daily_volatility |-> std(daily_returns, 1),
                 annualized_volatility |->
                   SurdMulSqrt(std(daily_returns, 1), TradingDays),
                 start_price |-> first,
                 end_price |-> last,
                 total_return_percent |->
                   Mul(Div(Sub(last, first), first), F(100))])

\* pd.to_datetime(date) of the dates explored, as a day of 2023; 0 stands for
\* the ValueError of a text that is no date
to_datetime(date) ==
  CASE date = <<"2023-01-01">> -> 1
    [] date = <<"2023-12-31">> -> 365
    [] OTHER -> 0
\* fetch_stock_data as main sees it: the frame the provider delivered, or
\* None when there is none or it is empty; with both dates given, None also
\* when one is no date or start >= end
fetch_stock_data(provided, start_date, end_date) ==
  IF /\ Truthy(start_date) /\ Truthy(end_date)
     /\ \/ to_datetime(start_date.x) = 0
        \/ to_datetime(end_date.x) = 0
        \/ to_datetime(start_date.x) >= to_datetime(end_date.x)
  THEN None
  ELSE IF IsNone(provided) THEN None
  ELSE IF NRows(provided) = 0 THEN None
  ELSE provided

\* the answers that mean yes
YesAnswers == {"da", "yes", "y"}
\* filename.lower().endswith('.csv')
EndsWithCsv(filename) ==
  filename.x # <<>> /\ Lower(filename.x[Len(filename.x)]) = ".csv"
\* export_data_to_csv(data, filename): the name of the file written, or None.
\* exists: os.path.exists(filename); overwrite: the answer typed when it does;
\* raised: the prompt or data.to_csv raises
export_data_to_csv(data, filename, exists, overwrite, raised) ==
  IF data.t # "DataFrame" THEN None
  ELSE IF filename.t # "str" THEN None
  ELSE LET name == IF EndsWithCsv(filename) THEN filename
                   ELSE Str(Append(filename.x, ".csv"))
       IN IF exists /\ Lower(overwrite) \notin YesAnswers THEN None
          ELSE IF raised THEN None
          ELSE name

(* --------------------- src/data_plotting.py function ------------------ *)
\* create_and_show_plot(data, ticker, std_deviation): the figure, or None when
\* reading data.index, data['Close'] or data['Moving_Average'] raises
create_and_show_plot(data, ticker, stats) ==
  IF HasColumn(data, "Close") /\ HasColumn(data, "Moving_Average")
     /\ (HasColumn(data, "RSI") => NRows(data) > 0)
  THEN Str("fig") ELSE None

(* ------------------------------ inputs -------------------------------- *)
Prices == {F(p) : p \in 0..MaxPrice}
CloseColumns == UNION {[1..n -> Prices] : n \in 0..MaxLen}
\* what a caller may hold: a frame with a Close column, a frame without one, None
Inputs ==
  {DataFrame([Close |-> c]) : c \in CloseColumns}
    \cup {DataFrame([Open |-> <<F(1)>>]), None}
Windows == (-1)..(MaxLen + 1)
Periods == (-1)..MaxLen
Thresholds == {-1, 0, MainThreshold, DefaultThreshold, 50, 100}
Tickers == {"AAPL", "MSFT"}
\* what main's user types: the period choice, the period, a date, an answer
PeriodChoices == {"1", "2", "3"}
PeriodInputs == {"1mo"}
DateInputs == {<<>>, <<"2023-01-01">>, <<"2023-12-31">>, <<"2023-13-01">>}
Answers == {"da", "YES", "net"}
\* the file names a caller may pass
Filenames ==
  {Str(<<"stock_data">>), Str(<<"stock_data", ".csv">>),
   Str(<<"stock_data", ".CSV">>), Integer(123)}
DefaultSpans == <<DefaultFast, DefaultSlow, DefaultSignal>>
Spans == {DefaultSpans, <<1, 3, 1>>, <<3, 1, 3>>, <<0, DefaultSlow, DefaultSignal>>}
Columns == {"Close", "Open"}
Rows(x) == IF x.t = "DataFrame" THEN NRows(x) ELSE 0

(* ------------------------------- state -------------------------------- *)
VARIABLES
  data,            \* the object the caller holds and passes in
  called,          \* the function called last ("none" before any call)
  args,            \* its arguments, besides the frame
  ret,             \* what it returned
  pc,              \* main: the statement to run next ("idle": not in main)
  ticker,          \* main's local ticker ("" before it is read)
  period,          \* main's local period
  start_date,      \* main's local start_date
  end_date,        \* main's local end_date
  stock_data,      \* main's local stock_data
  std_deviation,   \* main's local std_deviation
  trend_analysis   \* main's local trend_analysis

\* what main reads from the user before it fetches
choices == <<ticker, period, start_date, end_date>>
vars ==
  <<data, called, args, ret, pc, choices, stock_data, std_deviation,
    trend_analysis>>
locals == <<pc, choices, stock_data, std_deviation, trend_analysis>>

Init ==
  /\ data \in Inputs
  /\ called = "none"
  /\ args = <<>>
  /\ ret = None
  /\ pc = "idle"
  /\ ticker = ""
  /\ period = None
  /\ start_date = None
  /\ end_date = None
  /\ stock_data = None
  /\ std_deviation = None
  /\ trend_analysis = None

\* a caller outside main makes one call on its object
Idle == pc = "idle" /\ called = "none"

CallAddMovingAverage ==
  /\ Idle
  /\ \E w \in Windows :
       LET r == add_moving_average(data, w)
       IN  /\ data' = r.arg
           /\ ret' = r.ret
           /\ called' = "add_moving_average"
           /\ args' = <<w>>
  /\ UNCHANGED locals

CallCalculateAveragePrice ==
  /\ Idle
  /\ ret' = calculate_average_price(data)
  /\ called' = "calculate_average_price"
  /\ args' = <<>>
  /\ UNCHANGED <<data, locals>>

CallNotify ==
  /\ Idle
  /\ \E tk \in Tickers, th \in Thresholds :
       /\ ret' = notify_if_strong_fluctuations(data, tk, F(th))
       /\ args' = <<tk, th>>
  /\ called' = "notify_if_strong_fluctuations"
  /\ UNCHANGED <<data, locals>>

CallCalculateRsi ==
  /\ Idle
  /\ \E periods \in Periods :
       /\ ret' = calculate_rsi(data, periods)
       /\ args' = <<periods>>
  /\ called' = "calculate_rsi"
  /\ UNCHANGED <<data, locals>>

CallCalculateMacd ==
  /\ Idle
  /\ \E sp \in Spans :
       \* the default spans are explored on at most MaxEwmLen bars
       /\ sp = DefaultSpans => Rows(data) <= MaxEwmLen
       /\ ret' = calculate_macd(data, sp[1], sp[2], sp[3])
       /\ args' = sp
  /\ called' = "calculate_macd"
  /\ UNCHANGED <<data, locals>>

CallAddTechnicalIndicators ==
  /\ Idle
  \* it computes the default-span MACD: explored on at most MaxEwmLen bars
  /\ Rows(data) <= MaxEwmLen
  /\ \E add_rsi \in BOOLEAN, add_macd \in BOOLEAN, raised \in BOOLEAN :
       /\ ret' = add_technical_indicators(data, add_rsi, add_macd, raised)
       /\ args' = <<add_rsi, add_macd, raised>>
  /\ called' = "add_technical_indicators"
  /\ UNCHANGED <<data, locals>>

CallCalculateStandardDeviation ==
  /\ Idle
  /\ \E column \in Columns :
       /\ ret' = calculate_standard_deviation(data, column)
       /\ args' = <<column>>
  /\ called' = "calculate_standard_deviation"
  /\ UNCHANGED <<data, locals>>

CallAdvancedPriceAnalysis ==
  /\ Idle
  /\ ret' = advanced_price_analysis(data)
  /\ called' = "advanced_price_analysis"
  /\ args' = <<>>
  /\ UNCHANGED <<data, locals>>

\* export_data_to_csv(data, filename) on the caller's object; the frame's rows
\* are not read, so frames of at most MaxEwmLen bars are explored
CallExportDataToCsv ==
  /\ Idle
  /\ Rows(data) <= MaxEwmLen
  /\ \E filename \in Filenames, exists \in BOOLEAN, overwrite \in Answers,
        raised \in BOOLEAN :
       /\ ret' = export_data_to_csv(data, filename, exists, overwrite, raised)
       /\ args' = <<filename, exists, overwrite, raised>>
  /\ called' = "export_data_to_csv"
  /\ UNCHANGED <<data, locals>>

(* ----------------------------- src/main.py ---------------------------- *)
\* the ticker and the period or the dates are read, then
\* stock_data = dd.fetch_stock_data(...); return when it is None
MainFetch ==
  /\ Idle
  \* the pipeline computes the default-span MACD: at most MaxEwmLen bars
  /\ Rows(data) <= MaxEwmLen
  /\ ticker' \in Tickers
  /\ \E period_choice \in PeriodChoices :
       CASE period_choice = "1" ->
              /\ \E p \in PeriodInputs : period' = Str(<<p>>)
              /\ start_date' = None
              /\ end_date' = None
         [] period_choice = "2" ->
              /\ period' = None
              /\ \E s \in DateInputs : start_date' = Str(s)
              /\ \E e \in DateInputs : end_date' = Str(e)
         [] OTHER ->
              /\ period' = Str(<<"1mo">>)
              /\ start_date' = None
              /\ end_date' = None
  /\ stock_data' = fetch_stock_data(data, start_date', end_date')
  /\ ret' = stock_data'
  /\ called' = "fetch_stock_data"
  /\ args' = <<>>
  /\ pc' = IF IsNone(stock_data') THEN "done" ELSE "add_moving_average"
  /\ UNCHANGED <<data, std_deviation, trend_analysis>>

\* stock_data = dd.add_moving_average(stock_data): stock_data is the fetched object
MainAddMovingAverage ==
  /\ pc = "add_moving_average"
  /\ LET r == add_moving_average(stock_data, DefaultWindow)
     IN  /\ data' = r.arg
         /\ stock_data' = r.ret
         /\ ret' = r.ret
  /\ called' = "add_moving_average"
  /\ args' = <<DefaultWindow>>
  /\ pc' = "add_technical_indicators"
  /\ UNCHANGED <<choices, std_deviation, trend_analysis>>

\* stock_data = dd.add_technical_indicators(stock_data)
MainAddTechnicalIndicators ==
  /\ pc = "add_technical_indicators"
  /\ \E raised \in BOOLEAN :
       /\ stock_data' = add_technical_indicators(stock_data, TRUE, TRUE, raised)
       /\ args' = <<TRUE, TRUE, raised>>
  /\ ret' = stock_data'
  /\ called' = "add_technical_indicators"
  /\ pc' = "notify_if_strong_fluctuations"
  /\ UNCHANGED <<data, choices, std_deviation, trend_analysis>>

\* dd.notify_if_strong_fluctuations(stock_data, ticker, threshold=3)
MainNotify ==
  /\ pc = "notify_if_strong_fluctuations"
  /\ ret' = notify_if_strong_fluctuations(stock_data, ticker, F(MainThreshold))
  /\ args' = <<ticker, MainThreshold>>
  /\ called' = "notify_if_strong_fluctuations"
  /\ pc' = "calculate_average_price"
  /\ UNCHANGED <<data, choices, stock_data, std_deviation, trend_analysis>>

\* dd.calculate_average_price(stock_data)
MainAveragePrice ==
  /\ pc = "calculate_average_price"
  /\ ret' = calculate_average_price(stock_data)
  /\ called' = "calculate_average_price"
  /\ args' = <<>>
  /\ pc' = "calculate_standard_deviation"
  /\ UNCHANGED <<data, choices, stock_data, std_deviation, trend_analysis>>

\* std_deviation = dd.calculate_standard_deviation(stock_data)
MainStandardDeviation ==
  /\ pc = "calculate_standard_deviation"
  /\ std_deviation' = calculate_standard_deviation(stock_data, "Close")
  /\ ret' = std_deviation'
  /\ called' = "calculate_standard_deviation"
  /\ args' = <<"Close">>
  /\ pc' = "advanced_price_analysis"
  /\ UNCHANGED <<data, choices, stock_data, trend_analysis>>

\* trend_analysis = dd.advanced_price_analysis(stock_data)
MainAdvancedPriceAnalysis ==
  /\ pc = "advanced_price_analysis"
  /\ trend_analysis' = advanced_price_analysis(stock_data)
  /\ ret' = trend_analysis'
  /\ called' = "advanced_price_analysis"
  /\ args' = <<>>
  /\ pc' = "create_and_show_plot"
  /\ UNCHANGED <<data, choices, stock_data, std_deviation>>

\* interactive_plot = dplt.create_and_show_plot(stock_data, ticker, std_deviation)
\* with both dates given the period is named after them
MainPlot ==
  /\ pc = "create_and_show_plot"
  /\ period' = IF Truthy(start_date) /\ Truthy(end_date)
               THEN Str(start_date.x \o <<"_to_">> \o end_date.x)
               ELSE period
  /\ ret' = create_and_show_plot(stock_data, ticker, std_deviation)
  /\ args' = <<ticker>>
  /\ called' = "create_and_show_plot"
  /\ pc' = "export"
  /\ UNCHANGED <<data, ticker, start_date, end_date, stock_data, std_deviation,
                 trend_analysis>>

\* filename = f"{ticker}_{period}_stock_data.csv"
filename_of(tk, per) ==
  Str(<<tk, "_">> \o Format(per) \o <<"_stock_data", ".csv">>)

\* the export question, and dd.export_data_to_csv(stock_data, filename) on yes.
\* The question and the overwrite prompt of the call are one step: main is the
\* only thread, so nothing moves while it waits for an answer.
MainExport ==
  /\ pc = "export"
  /\ \E export_choice \in Answers :
       IF Lower(export_choice) \in YesAnswers
       THEN \E exists \in BOOLEAN, overwrite \in Answers, raised \in BOOLEAN :
              /\ ret' = export_data_to_csv(stock_data, filename_of(ticker, period),
                                           exists, overwrite, raised)
              /\ called' = "export_data_to_csv"
              /\ args' = <<filename_of(ticker, period), exists, overwrite, raised>>
       ELSE UNCHANGED <<ret, called, args>>
  /\ pc' = "done"
  /\ UNCHANGED <<data, choices, stock_data, std_deviation, trend_analysis>>

Next ==
  \/ CallAddMovingAverage
  \/ CallCalculateAveragePrice
  \/ CallNotify
  \/ CallCalculateRsi
  \/ CallCalculateMacd
  \/ CallAddTechnicalIndicators
  \/ CallCalculateStandardDeviation
  \/ CallAdvancedPriceAnalysis
  \/ CallExportDataToCsv
  \/ MainFetch
  \/ MainAddMovingAverage
  \/ MainAddTechnicalIndicators
  \/ MainNotify
  \/ MainAveragePrice
  \/ MainStandardDeviation
  \/ MainAdvancedPriceAnalysis
  \/ MainPlot
  \/ MainExport

Spec == Init /\ [][Next]_vars

(* ------------------------------ properties ---------------------------- *)
\* the frame the last call was given
Arg ==
  IF pc = "idle" \/ called \in {"fetch_stock_data", "add_moving_average",
                                "add_technical_indicators"}
  THEN data ELSE stock_data
\* its Close column, as integers (the prices explored are whole numbers)
Close == [i \in 1..Len(Arg.cols["Close"]) |-> Arg.cols["Close"][i][1]]
CalledOnClose(f) == called = f /\ HasColumn(Arg, "Close")

RECURSIVE TrailingSum(_, _, _)
\* c[i-w+1] + ... + c[i]
TrailingSum(c, i, w) == IF w = 0 THEN 0 ELSE c[i] + TrailingSum(c, i - 1, w - 1)

\* C1: for a window w with 1 <= w <= L, add_moving_average returns the frame
\* with a Moving_Average column of length L whose first w-1 entries are NaN
\* and whose entry i >= w-1 is the exact mean of the w closes ending at i.
C1_MovingAverageIsTrailingMean ==
  (CalledOnClose("add_moving_average") /\ args[1] >= 1 /\ args[1] <= Len(Close))
    => /\ HasColumn(ret, "Moving_Average")
       /\ Len(ret.cols["Moving_Average"]) = Len(Close)
       /\ \A i \in 1..Len(Close) :
            ret.cols["Moving_Average"][i] =
              IF i < args[1] THEN NaN
              ELSE Q(TrailingSum(Close, i, args[1]), args[1])

\* a window of 2 over three or more bars, with a mean that is not a whole number
C1_Witness ==
  /\ CalledOnClose("add_moving_average")
  /\ args[1] = 2
  /\ Len(Close) >= 3
  /\ ret.cols["Moving_Average"][1] = NaN
  /\ ret.cols["Moving_Average"][3][2] = 2

\* C2: no call changes the frame it is given; results come back only through
\* the return value.
C2_InputNeverMutated == [][data' = data]_vars

IntSum(c) == TrailingSum(c, Len(c), Len(c))
IntMin(c) == CHOOSE x \in {c[i] : i \in 1..Len(c)} : \A j \in 1..Len(c) : x <= c[j]
IntMax(c) == CHOOSE x \in {c[i] : i \in 1..Len(c)} : \A j \in 1..Len(c) : x >= c[j]

\* C3: calculate_standard_deviation returns None when the column is empty or
\* its mean is 0, and no record it returns has an infinite or NaN
\* coefficient_variation.
C3_DispersionGuardsZeroMean ==
  (CalledOnClose("calculate_standard_deviation") /\ args[1] = "Close")
    => /\ (Len(Close) = 0 \/ IntSum(Close) = 0) => IsNone(ret)
       /\ ~IsNone(ret) =>
            /\ ~SurdIsNaN(ret.d.coefficient_variation)
            /\ ~SurdIsInf(ret.d.coefficient_variation)

\* C4: notify_if_strong_fluctuations returns no alert when the minimum close
\* is 0, and no alert it returns has an infinite or NaN fluctuation_percent.
C4_FluctuationGuardsZeroMin ==
  (CalledOnClose("notify_if_strong_fluctuations") /\ Len(Close) > 0)
    => /\ IntMin(Close) = 0 => IsNone(ret)
       /\ ~IsNone(ret) => IsFinite(ret.d.fluctuation_percent)

\* C5: on positive closes an alert is returned exactly when
\* (max - min) / min * 100 > threshold; it carries the label, min, max and the
\* percentage rounded to 2 decimals (a multiple of 1/100 within 1/200 of it).
C5_AlertIffAboveThreshold ==
  (/\ CalledOnClose("notify_if_strong_fluctuations")
   /\ Len(Close) > 0
   /\ \A i \in 1..Len(Close) : Close[i] > 0)
    => LET mn == IntMin(Close)
           mx == IntMax(Close)
           fp == ret.d.fluctuation_percent
           k == fp[1] * (100 \div fp[2])
       IN  /\ ~IsNone(ret) <=> 100 * (mx - mn) > args[2] * mn
           /\ ~IsNone(ret) =>
                /\ ret.d.ticker = args[1]
                /\ ret.d.min_price = F(mn)
                /\ ret.d.max_price = F(mx)
                /\ IsFinite(fp)
                /\ 100 % fp[2] = 0
                /\ 2 * Abs(k * mn - 10000 * (mx - mn)) <= mn

\* an alert whose percentage had to be rounded: closes between 3 and 4
C5_Witness ==
  /\ CalledOnClose("notify_if_strong_fluctuations")
  /\ ~IsNone(ret)
  /\ args[2] = DefaultThreshold
  /\ ret.d.min_price = F(3)
  /\ ret.d.max_price = F(4)
  /\ ret.d.fluctuation_percent = Q(3333, 100)

\* C6: for periods >= 1 every defined RSI entry is in [0, 100], and where the
\* window's average loss is 0 and its average gain is positive (no close of
\* the window falls and the last is above the first) the entry is exactly 100.
C6_RsiBounded ==
  (CalledOnClose("calculate_rsi") /\ args[1] >= 1)
    => /\ ret.t = "Series"
       /\ \A i \in 1..Len(ret.v) :
            IsNaN(ret.v[i]) \/ (Le(F(0), ret.v[i]) /\ Le(ret.v[i], F(100)))
       /\ \A i \in (args[1] + 1)..Len(Close) :
            (/\ \A j \in (i - args[1] + 1)..i : Close[j] >= Close[j - 1]
             /\ Close[i] > Close[i - args[1]])
              => ret.v[i] = F(100)

\* one series with an entry of 100 (no loss in the window) and an entry
\* strictly inside the range
C6_Witness ==
  /\ CalledOnClose("calculate_rsi")
  /\ args[1] = 2
  /\ ret.t = "Series"
  /\ \E i, j \in 1..Len(ret.v) :
       /\ ret.v[i] = F(100)
       /\ Lt(F(0), ret.v[j]) /\ Lt(ret.v[j], F(100))

\* C7: on a non-empty Close column calculate_macd returns MACD, Signal_Line
\* and Histogram of the input's length with every entry a number, all three 0
\* at the first index, and Histogram + Signal_Line = MACD at every index.
C7_MacdFullyDefined ==
  (/\ CalledOnClose("calculate_macd")
   /\ Len(Close) > 0
   /\ \A k \in 1..3 : args[k] >= 1)
    => /\ ret.t = "DataFrame"
       /\ DOMAIN ret.cols = {"MACD", "Signal_Line", "Histogram"}
       /\ \A c \in DOMAIN ret.cols :
            /\ Len(ret.cols[c]) = Len(Close)
            /\ \A t \in 1..Len(Close) : IsFinite(ret.cols[c][t])
            /\ ret.cols[c][1] = F(0)
       /\ \A t \in 1..Len(Close) :
            Add(ret.cols["Histogram"][t], ret.cols["Signal_Line"][t])
              = ret.cols["MACD"][t]

\* the default spans on two bars, with a MACD that has left 0
C7_Witness ==
  /\ CalledOnClose("calculate_macd")
  /\ args = DefaultSpans
  /\ Len(Close) = 2
  /\ ret.t = "DataFrame"
  /\ ret.cols["MACD"][2] # F(0)
  /\ ret.cols["Histogram"][2] # F(0)

\* C8: on a single bar with close p # 0 advanced_price_analysis returns a
\* record with the three volatility fields NaN, start_price = end_price = p
\* and total_return_percent = 0.
C8_SingleBarAnalysis ==
  (CalledOnClose("advanced_price_analysis") /\ Len(Close) = 1 /\ Close[1] # 0)
    => /\ ret.t = "dict"
       /\ IsNaN(ret.d.mean_daily_return)
       /\ SurdIsNaN(ret.d.daily_volatility)
       /\ SurdIsNaN(ret.d.annualized_volatility)
       /\ ret.d.start_price = F(Close[1])
       /\ ret.d.end_price = F(Close[1])
       /\ ret.d.total_return_percent = F(0)

C8_Witness ==
  /\ CalledOnClose("advanced_price_analysis")
  /\ Len(Close) = 1
  /\ Close[1] = 3
  /\ ret.t = "dict"
  /\ ret.d.start_price = F(3)

\* C9: add_moving_average with window_size <= 0 ends in a failure result
\* (None) and returns no frame that carries a Moving_Average column.
C9_NonPositiveWindowRejected ==
  (CalledOnClose("add_moving_average") /\ args[1] <= 0)
    => /\ IsNone(ret)
       /\ ~HasColumn(ret, "Moving_Average")

\* C10: in main, once the price series is fetched, every later transform
\* computes its result on it, whatever an earlier transform returned.
C10_MainTransformsIsolated ==
  (/\ pc \in {"create_and_show_plot", "export", "done"}
   /\ called # "fetch_stock_data"
   /\ HasColumn(data, "Close"))
    => /\ std_deviation.t = "dict"
       /\ trend_analysis.t = "dict"

\* C11: for periods >= 1 calculate_rsi returns a Series of the input's length
\* whose entries at the first `periods` indices are NaN (all of them when
\* L <= periods, still a Series and not None); the entry at index `periods`
\* is the first that can be a number, and is one exactly when the closes up
\* to it are not all equal.
C11_RsiWarmUp ==
  (CalledOnClose("calculate_rsi") /\ args[1] >= 1)
    => /\ ret.t = "Series"
       /\ Len(ret.v) = Len(Close)
       /\ \A i \in 1..Len(Close) : i <= args[1] => IsNaN(ret.v[i])
       /\ Len(Close) > args[1] =>
            (IsFinite(ret.v[args[1] + 1])
               <=> \E j \in 2..(args[1] + 1) : Close[j] # Close[j - 1])

\* periods = 2 on four bars: two NaN entries, then a number at index 2
C11_Witness ==
  /\ CalledOnClose("calculate_rsi")
  /\ args[1] = 2
  /\ Len(Close) = 4
  /\ ret.t = "Series"
  /\ IsNaN(ret.v[1]) /\ IsNaN(ret.v[2])
  /\ IsFinite(ret.v[3])

\* a column no longer than periods: every entry NaN, returned as a Series
C11_WitnessShort ==
  /\ CalledOnClose("calculate_rsi")
  /\ args[1] = 3
  /\ Len(Close) = 3
  /\ Close[3] > Close[1]
  /\ ret.t = "Series"
  /\ \A i \in 1..3 : IsNaN(ret.v[i])

====
